---- MODULE Spec2Model ----
(* DevTrack (src/app.py): the projects / team_members / tasks store, the     *)
(* Streamlit session state that drives its forms, and the derived queries of *)
(* the dashboard, task list and reports pages.                               *)
EXTENDS Integers, Sequences, FiniteSets, TLC

\* The database holds at most this many rows, all tables together.
MaxRows == 5

\* ------------------------------------------------------------------ values
\* session_state['edit_*'] is None, the string "new", or a row id (>= 1).
None == 0
New == -1
\* SQL NULL in tasks.assigned_to.
NULL == 0
\* timedelta(days=7) of the dashboard's "Tasks Due Soon".
WithinDays == 7

nav_options == <<"Dashboard", "Projects", "Tasks", "Team", "Reports">>
ProjectStatusOptions == <<"Planning", "In Progress", "On Hold", "Completed", "Cancelled">>
TaskStatusOptions == <<"Not Started", "In Progress", "Blocked", "Completed">>
PriorityOptions == <<"Low", "Medium", "High">>

Range(s) == {s[i] : i \in DOMAIN s}

\* st.selectbox returns one of its options; st.slider an integer of its range.
selectbox(options) == Range(options)
\* The slider without its range.
slider_unbounded(lo, hi) == Int

slider(lo, hi) == lo..hi

\* ------------------------------------------------------------------- dates
\* A date is its day number within 2024 (1 = 2024-01-01); the TEXT the tables
\* store is date.isoformat(), modelled as <<year, month, day>>.
MonthLen == <<31, 29, 31, 30, 31, 30, 31, 31, 30, 31, 30, 31>>

RECURSIVE DaysBefore(_)
DaysBefore(m) == IF m = 1 THEN 0 ELSE DaysBefore(m - 1) + MonthLen[m - 1]

isoformat(n) ==
    LET m == CHOOSE k \in 1..12 : DaysBefore(k) < n /\ n <= DaysBefore(k) + MonthLen[k]
    IN  <<2024, m, n - DaysBefore(m)>>

fromisoformat(s) == DaysBefore(s[2]) + s[3]

\* ------------------------------------------------------------------- reals
\* A Python float / SQLite REAL, as an exact fraction <<numerator, denominator>>.
Real(i) == <<i, 1>>
RDiv(a, b) == <<a[1] * b[2], a[2] * b[1]>>
RMul(a, b) == <<a[1] * b[1], a[2] * b[2]>>
RGt(a, b) == a[1] * b[2] > b[1] * a[2]
REq(a, b) == a[1] * b[2] = b[1] * a[2]
RAdd(a, b) == <<a[1] * b[2] + b[1] * a[2], a[2] * b[2]>>
RSub(a, b) == <<a[1] * b[2] - b[1] * a[2], a[2] * b[2]>>
\* int(x), and timedelta.days: the whole days below x (denominators are positive).
int(a) == a[1] \div a[2]

\* ------------------------------------------------------------------ tables
\* projects, team_members, tasks: the three tables of init_db (app.py 26-61),
\*   each a sequence of rows in rowid order.
\* page, edit_project, edit_task, edit_team_member: st.session_state, as
\*   init_session_state sets it up (app.py 68-75).
\* msg: what the last script run ended with: "" for a normal page, the
\*   st.error text of a rejected form, or the name of an uncaught exception.
VARIABLES projects, team_members, tasks,
          page, edit_project, edit_task, edit_team_member,
          msg

store == <<projects, team_members, tasks>>
session == <<page, edit_project, edit_task, edit_team_member>>
vars == <<projects, team_members, tasks, page, edit_project, edit_task, edit_team_member, msg>>

Ids(tbl) == {tbl[i].id : i \in DOMAIN tbl}

RECURSIVE SetMax(_)
SetMax(S) == IF S = {} THEN 0
             ELSE LET x == CHOOSE y \in S : TRUE
                      r == SetMax(S \ {x})
                  IN  IF x > r THEN x ELSE r

\* The largest rowid handed out again.
NewRowid_reused(tbl) == IF tbl = <<>> THEN 1 ELSE SetMax(Ids(tbl))

\* INTEGER PRIMARY KEY: a row inserted without an id gets the largest rowid + 1.
NewRowid(tbl) == SetMax(Ids(tbl)) + 1

\* c.fetchone() of SELECT * FROM t WHERE id = ?: the row, or None.
fetchone(tbl, id) ==
    IF id \in Ids(tbl)
    THEN [found |-> TRUE, row |-> tbl[CHOOSE i \in DOMAIN tbl : tbl[i].id = id]]
    ELSE [found |-> FALSE, row |-> [id |-> None]]

RowCount == Len(projects) + Len(team_members) + Len(tasks)

\* init_session_state, and the tables init_db creates when the file is absent.
Init ==
    /\ projects = <<>>
    /\ team_members = <<>>
    /\ tasks = <<>>
    /\ page = "Dashboard"
    /\ edit_project = None
    /\ edit_task = None
    /\ edit_team_member = None
    /\ msg = ""

\* ----------------------------------------------------------------- rendering
\* What the page function shows at the end of a script run: "TypeError" when
\* the edit form's load, dict(zip(columns, c.fetchone())), meets no row; the
\* task form's error when there is no project; otherwise nothing.
render(pg, ep, et, em, P, M, T) ==
    IF pg = "Projects" /\ ep \notin {None, New} /\ ~fetchone(P, ep).found THEN "TypeError"
    ELSE IF pg = "Tasks" /\ et \notin {None, New} /\ ~fetchone(T, et).found THEN "TypeError"
    ELSE IF pg = "Team" /\ em \notin {None, New} /\ ~fetchone(M, em).found THEN "TypeError"
    ELSE IF pg = "Tasks" /\ et # None /\ P = <<>>
         THEN "You need to create a project before adding tasks."
    ELSE ""

Rendered == msg' = render(page', edit_project', edit_task', edit_team_member',
                          projects', team_members', tasks')

\* ---------------------------------------------------------------- navigation
\* A sidebar button: the page changes and the other pages' edit states reset.
NavClick(option) ==
    /\ page' = option
    /\ edit_project' = IF option # "Projects" THEN None ELSE edit_project
    /\ edit_task' = IF option # "Tasks" THEN None ELSE edit_task
    /\ edit_team_member' = IF option # "Team" THEN None ELSE edit_team_member
    /\ UNCHANGED store
    /\ Rendered

QuickNewProject ==
    /\ page' = "Projects"
    /\ edit_project' = New
    /\ UNCHANGED <<store, edit_task, edit_team_member>>
    /\ Rendered

QuickNewTask ==
    /\ page' = "Tasks"
    /\ edit_task' = New
    /\ UNCHANGED <<store, edit_project, edit_team_member>>
    /\ Rendered

\* True while the form of page pg is on screen: the last run drew it.
FormShown(pg, edit) == page = pg /\ edit # None /\ msg # "TypeError"
ListShown(pg, edit) == page = pg /\ edit = None /\ msg # "TypeError"

\* The row replaced by a newly inserted one, as INSERT OR REPLACE without the id would.
sql_update_replace(tbl, row) ==
    [i \in DOMAIN tbl |-> IF tbl[i].id = row.id THEN [row EXCEPT !.id = NewRowid(tbl)] ELSE tbl[i]]

\* UPDATE t SET ... WHERE id = ?: every row of that id is overwritten.
sql_update(tbl, row) == [i \in DOMAIN tbl |-> IF tbl[i].id = row.id THEN row ELSE tbl[i]]
\* INSERT INTO t (...): a new row, its id assigned by the table.
sql_insert(tbl, row) == Append(tbl, [row EXCEPT !.id = NewRowid(tbl)])

\* ------------------------------------------------------------ projects page
\* What the form's widgets can submit, out of a few sample submissions.
ProjectSamples ==
    { [name |-> "", description |-> "", start_date |-> 1, end_date |-> 31,
       status |-> "Planning", progress |-> 0],
      [name |-> "P", description |-> "", start_date |-> 1, end_date |-> 15,
       status |-> "In Progress", progress |-> 50],
      [name |-> "All Projects", description |-> "d", start_date |-> 32, end_date |-> 60,
       status |-> "Completed", progress |-> 100],
      [name |-> "P", description |-> "d", start_date |-> 1, end_date |-> 15,
       status |-> "Done", progress |-> 150],
      [name |-> "P", description |-> "", start_date |-> 1, end_date |-> 15,
       status |-> "In Progress", progress |-> 150],
      [name |-> "P", description |-> "", start_date |-> 1, end_date |-> 15,
       status |-> "Done", progress |-> 50] }

ProjectForms ==
    { f \in ProjectSamples : /\ f.status \in selectbox(ProjectStatusOptions)
                             /\ f.progress \in slider(0, 100) }

\* The record the form is filled from: the defaults of a new project (the two
\* date defaults, today and today + 30, are left out), or the stored row.
project_data(P, edit) ==
    IF edit = New
    THEN [found |-> TRUE,
          row |-> [id |-> None, name |-> "", description |-> "",
                   status |-> "Planning", progress |-> Real(0)]]
    ELSE fetchone(P, edit)

\* The check on the name left out.
project_valid_always(f) == TRUE

\* if name:
project_valid(f) == f.name # ""

\* The two dates bound to each other's column.
project_row_swapped(id, f) ==
    [id |-> id, name |-> f.name, description |-> f.description,
     start_date |-> isoformat(f.end_date), end_date |-> isoformat(f.start_date),
     status |-> f.status, progress |-> Real(f.progress)]

\* The parameters of the INSERT / UPDATE; progress lands in a REAL column.
project_row(id, f) ==
    [id |-> id, name |-> f.name, description |-> f.description,
     start_date |-> isoformat(f.start_date), end_date |-> isoformat(f.end_date),
     status |-> f.status, progress |-> Real(f.progress)]

save_project(P, data, f) ==
    IF data.id = None THEN sql_insert(P, project_row(None, f))
    ELSE sql_update(P, project_row(data.id, f))

AddNewProject ==
    /\ ListShown("Projects", edit_project)
    /\ edit_project' = New
    /\ UNCHANGED <<store, page, edit_task, edit_team_member>>
    /\ Rendered

EditProject(id) ==
    /\ ListShown("Projects", edit_project)
    /\ id \in Ids(projects)
    /\ edit_project' = id
    /\ UNCHANGED <<store, page, edit_task, edit_team_member>>
    /\ Rendered

CancelProject ==
    /\ FormShown("Projects", edit_project)
    /\ edit_project' = None
    /\ UNCHANGED <<store, page, edit_task, edit_team_member>>
    /\ Rendered

\* "Save Project": the script runs again, loads project_data, and handles the
\* submission; a save ends in st.rerun(), which draws the list.
SaveProject(f) ==
    /\ FormShown("Projects", edit_project)
    /\ (edit_project = New /\ project_valid(f)) => RowCount < MaxRows
    /\ LET got == project_data(projects, edit_project)
       IN  IF ~got.found
           THEN /\ msg' = "TypeError"
                /\ UNCHANGED <<store, session>>
           ELSE IF project_valid(f)
           THEN /\ projects' = save_project(projects, got.row, f)
                /\ edit_project' = None
                /\ UNCHANGED <<team_members, tasks, page, edit_task, edit_team_member>>
                /\ Rendered
           ELSE /\ msg' = "Project name is required."
                /\ UNCHANGED <<store, session>>

\* ---------------------------------------------------------------- team page
MemberForms ==
    { [name |-> "", role |-> "", email |-> ""],
      [name |-> "Ann", role |-> "", email |-> ""],
      [name |-> "", role |-> "Dev", email |-> "a@x"],
      [name |-> "Ann", role |-> "Dev", email |-> ""],
      [name |-> "Bob", role |-> "QA", email |-> "b@x"] }

member_data(M, edit) ==
    IF edit = New
    THEN [found |-> TRUE, row |-> [id |-> None, name |-> "", role |-> "", email |-> ""]]
    ELSE fetchone(M, edit)

\* The check on the role left out.
member_valid_name_only(f) == f.name # ""

\* if name and role:
member_valid(f) == f.name # "" /\ f.role # ""

member_row(id, f) == [id |-> id, name |-> f.name, role |-> f.role, email |-> f.email]

save_member(M, data, f) ==
    IF data.id = None THEN sql_insert(M, member_row(None, f))
    ELSE sql_update(M, member_row(data.id, f))

AddTeamMember ==
    /\ ListShown("Team", edit_team_member)
    /\ edit_team_member' = New
    /\ UNCHANGED <<store, page, edit_project, edit_task>>
    /\ Rendered

EditTeamMember(id) ==
    /\ ListShown("Team", edit_team_member)
    /\ id \in Ids(team_members)
    /\ edit_team_member' = id
    /\ UNCHANGED <<store, page, edit_project, edit_task>>
    /\ Rendered

CancelTeamMember ==
    /\ FormShown("Team", edit_team_member)
    /\ edit_team_member' = None
    /\ UNCHANGED <<store, page, edit_project, edit_task>>
    /\ Rendered

SaveTeamMember(f) ==
    /\ FormShown("Team", edit_team_member)
    /\ (edit_team_member = New /\ member_valid(f)) => RowCount < MaxRows
    /\ LET got == member_data(team_members, edit_team_member)
       IN  IF ~got.found
           THEN /\ msg' = "TypeError"
                /\ UNCHANGED <<store, session>>
           ELSE IF member_valid(f)
           THEN /\ team_members' = save_member(team_members, got.row, f)
                /\ edit_team_member' = None
                /\ UNCHANGED <<projects, tasks, page, edit_project, edit_task>>
                /\ Rendered
           ELSE /\ msg' = "Name and role are required."
                /\ UNCHANGED <<store, session>>

\* --------------------------------------------------------------- tasks page
TaskSamples ==
    { [name |-> "", description |-> "", status |-> "Not Started", priority |-> "Medium",
       start_date |-> 1, due_date |-> 8, progress |-> 0],
      [name |-> "T", description |-> "", status |-> "Not Started", priority |-> "Medium",
       start_date |-> 1, due_date |-> 20, progress |-> 0],
      [name |-> "U", description |-> "d", status |-> "Completed", priority |-> "High",
       start_date |-> 3, due_date |-> 5, progress |-> 100],
      [name |-> "T", description |-> "d", status |-> "completed", priority |-> "Urgent",
       start_date |-> 1, due_date |-> 20, progress |-> 101],
      [name |-> "T", description |-> "", status |-> "Not Started", priority |-> "Medium",
       start_date |-> 1, due_date |-> 20, progress |-> 101],
      [name |-> "T", description |-> "", status |-> "Not Started", priority |-> "Urgent",
       start_date |-> 1, due_date |-> 20, progress |-> 0],
      [name |-> "T", description |-> "", status |-> "completed", priority |-> "Medium",
       start_date |-> 1, due_date |-> 20, progress |-> 0] }

TaskForms ==
    { f \in TaskSamples : /\ f.status \in selectbox(TaskStatusOptions)
                          /\ f.priority \in selectbox(PriorityOptions)
                          /\ f.progress \in slider(0, 100) }

\* list.index(x): the first position holding x.
index(seq, x) == CHOOSE i \in DOMAIN seq : seq[i] = x /\ \A j \in 1..(i - 1) : seq[j] # x

Column(tbl, col) == [i \in DOMAIN tbl |-> tbl[i][col]]

project_options(P) == Column(P, "name")
project_ids(P) == Column(P, "id")
team_options(M) == <<"Unassigned">> \o Column(M, "name")
team_ids(M) == <<NULL>> \o Column(M, "id")

\* What the two selectboxes of the form can return; 0 stands in when the
\* table is empty and no selectbox is drawn.
ProjectChoices(P) == IF P = <<>> THEN {0} ELSE selectbox(project_options(P))
AssigneeChoices(M) == IF M = <<>> THEN {0} ELSE selectbox(team_options(M))

task_data(T, edit) ==
    IF edit = New
    THEN [found |-> TRUE,
          row |-> [id |-> None, project_id |-> None, name |-> "", description |-> "",
                   status |-> "Not Started", priority |-> "Medium",
                   assigned_to |-> NULL, progress |-> Real(0)]]
    ELSE fetchone(T, edit)

\* The option the Project selectbox shows pre-selected, and returns when left
\* alone: index=default_idx, the position of the task's project_id in
\* project_ids, or the first option.
default_project_idx(P, data) ==
    IF data.project_id # None /\ data.project_id \in Range(project_ids(P))
    THEN project_options(P)[index(project_ids(P), data.project_id)]
    ELSE project_options(P)[1]

\* The same for "Assigned To": the position of assigned_to in team_ids, or
\* "Unassigned".
default_assigned_idx(M, data) ==
    IF data.assigned_to # NULL /\ data.assigned_to \in Range(team_ids(M))
    THEN team_options(M)[index(team_ids(M), data.assigned_to)]
    ELSE team_options(M)[1]

\* if name and not projects_df.empty:
task_valid(P, f) == f.name # "" /\ P # <<>>

\* project_ids[project_options.index(project_idx)]
selected_project_id(P, project_idx) == project_ids(P)[index(project_options(P), project_idx)]

\* The position in team_options taken for the id.
selected_assignee_id_position(M, assigned_idx) ==
    IF M = <<>> \/ assigned_idx = "Unassigned" THEN NULL
    ELSE index(team_options(M), assigned_idx)

\* None if assigned_idx == "Unassigned" or team_df.empty else team_ids[...]
selected_assignee_id(M, assigned_idx) ==
    IF M = <<>> \/ assigned_idx = "Unassigned" THEN NULL
    ELSE team_ids(M)[index(team_options(M), assigned_idx)]

\* The description left out of the statement's columns.
task_row_no_description(id, project_id, assigned_to, f) ==
    [id |-> id, project_id |-> project_id, name |-> f.name, description |-> "",
     status |-> f.status, priority |-> f.priority,
     start_date |-> isoformat(f.start_date), due_date |-> isoformat(f.due_date),
     assigned_to |-> assigned_to, progress |-> Real(f.progress)]

task_row(id, project_id, assigned_to, f) ==
    [id |-> id, project_id |-> project_id, name |-> f.name, description |-> f.description,
     status |-> f.status, priority |-> f.priority,
     start_date |-> isoformat(f.start_date), due_date |-> isoformat(f.due_date),
     assigned_to |-> assigned_to, progress |-> Real(f.progress)]

save_task(T, data, project_id, assigned_to, f) ==
    IF data.id = None THEN sql_insert(T, task_row(None, project_id, assigned_to, f))
    ELSE sql_update(T, task_row(data.id, project_id, assigned_to, f))

AddNewTask ==
    /\ ListShown("Tasks", edit_task)
    /\ edit_task' = New
    /\ UNCHANGED <<store, page, edit_project, edit_team_member>>
    /\ Rendered

EditTask(id) ==
    /\ ListShown("Tasks", edit_task)
    /\ id \in Ids(tasks)
    /\ edit_task' = id
    /\ UNCHANGED <<store, page, edit_project, edit_team_member>>
    /\ Rendered

CancelTask ==
    /\ FormShown("Tasks", edit_task)
    /\ edit_task' = None
    /\ UNCHANGED <<store, page, edit_project, edit_team_member>>
    /\ Rendered

SaveTask(f, project_idx, assigned_idx) ==
    /\ FormShown("Tasks", edit_task)
    /\ (edit_task = New /\ task_valid(projects, f)) => RowCount < MaxRows
    /\ LET got == task_data(tasks, edit_task)
       IN  IF ~got.found
           THEN /\ msg' = "TypeError"
                /\ UNCHANGED <<store, session>>
           ELSE IF task_valid(projects, f)
           THEN /\ tasks' = save_task(tasks, got.row,
                                      selected_project_id(projects, project_idx),
                                      selected_assignee_id(team_members, assigned_idx), f)
                /\ edit_task' = None
                /\ UNCHANGED <<projects, team_members, page, edit_project, edit_team_member>>
                /\ Rendered
           ELSE /\ msg' = IF projects = <<>>
                          THEN "You need to create a project before adding tasks."
                          ELSE "Task name is required."
                /\ UNCHANGED <<store, session>>

\* -------------------------------------------------------------- the program
Next ==
    \/ \E option \in Range(nav_options) : NavClick(option)
    \/ QuickNewProject
    \/ QuickNewTask
    \/ AddNewProject
    \/ \E id \in Ids(projects) : EditProject(id)
    \/ CancelProject
    \/ \E f \in ProjectForms : SaveProject(f)
    \/ AddTeamMember
    \/ \E id \in Ids(team_members) : EditTeamMember(id)
    \/ CancelTeamMember
    \/ \E f \in MemberForms : SaveTeamMember(f)
    \/ AddNewTask
    \/ \E id \in Ids(tasks) : EditTask(id)
    \/ CancelTask
    \/ \E f \in TaskForms : \E project_idx \in ProjectChoices(projects) :
          \E assigned_idx \in AssigneeChoices(team_members) :
             SaveTask(f, project_idx, assigned_idx)

Spec == Init /\ [][Next]_vars

\* The file project_management.db is removed between two script runs; init_db
\* of the next run connects, which creates it, and creates the empty tables.
\* The session state, and the page on screen, are those of before.
DbFileRemoved ==
    /\ RowCount > 0
    /\ projects' = <<>>
    /\ team_members' = <<>>
    /\ tasks' = <<>>
    /\ UNCHANGED <<session, msg>>

SpecFile == Init /\ [][Next \/ DbFileRemoved]_vars

\* ---------------------------------------------------------- derived queries
\* datetime.datetime.now(), as its date; the queries below take it as input.
NowDays == {1, 11, 15, 25, 70}

\* LEFT JOIN ... ON t.col = other.id: the one row of that id, if any.
joined(tbl, id) == fetchone(tbl, id)

(* Dashboard, "Tasks Due Soon" *)
\* pd.to_datetime of the stored text; midnight of that day.
to_datetime(text) == fromisoformat(text)

\* not Completed, and due_date <= now + 7 days (now is later than midnight
\* of its day, so the days compare as the datetimes do).
due_soon(t, today) ==
    t.status # "Completed" /\ to_datetime(t.due_date) <= today + WithinDays

\* sort_values('due_date'): rows in ascending due date, ties in table order.
RECURSIVE sort_values(_)
sort_values(rows) ==
    IF rows = <<>> THEN <<>>
    ELSE LET least == CHOOSE i \in DOMAIN rows :
                        /\ \A j \in DOMAIN rows :
                              to_datetime(rows[i].due_date) <= to_datetime(rows[j].due_date)
                        /\ \A j \in 1..(i - 1) :
                              to_datetime(rows[j].due_date) > to_datetime(rows[i].due_date)
             rest == [k \in 1..(Len(rows) - 1) |-> IF k < least THEN rows[k] ELSE rows[k + 1]]
         IN  <<rows[least]>> \o sort_values(rest)

\* merge(projects_minimal, left_on='project_id', right_on='id'): an inner join.
RECURSIVE merge(_, _)
merge(rows, P) ==
    IF rows = <<>> THEN <<>>
    ELSE LET t == Head(rows)
             p == joined(P, t.project_id)
         IN  (IF p.found
              THEN <<[id |-> t.id, name |-> t.name, name_project |-> p.row.name,
                      status |-> t.status, priority |-> t.priority,
                      due_date |-> t.due_date]>>
              ELSE <<>>) \o merge(Tail(rows), P)

upcoming_tasks(T, P, today) ==
    IF T = <<>> THEN <<>>
    ELSE LET upcoming == SelectSeq(T, LAMBDA t : due_soon(t, today))
         IN  IF upcoming = <<>> THEN <<>> ELSE merge(sort_values(upcoming), P)

(* Tasks page, the filtered list *)
project_filter_options(P) == <<"All Projects">> \o Column(P, "name")
status_filter_options == <<"All Statuses">> \o TaskStatusOptions

\* SELECT t.*, p.name, tm.name FROM tasks t LEFT JOIN projects p ...
\* LEFT JOIN team_members tm ... [WHERE p.name = ? [AND t.status = ?]]
task_matches(t, P, selected_project, selected_status) ==
    /\ selected_project # "All Projects" =>
          (joined(P, t.project_id).found /\ joined(P, t.project_id).row.name = selected_project)
    /\ selected_status # "All Statuses" => t.status = selected_status

list_tasks(T, P, selected_project, selected_status) ==
    SelectSeq(T, LAMBDA t : task_matches(t, P, selected_project, selected_status))

(* Reports, "Team Workload" *)
\* tm.name of the LEFT JOIN: NULL (here "") for a task without assignee.
assignee_name(t, M) ==
    IF t.assigned_to # NULL /\ joined(M, t.assigned_to).found
    THEN joined(M, t.assigned_to).row.name ELSE ""

\* groupby('assignee_name').size(), the NULL group dropped: one row per name.
workload(T, M) ==
    IF M # <<>> /\ T # <<>>
    THEN { [member |-> n, tasks |-> Cardinality({i \in DOMAIN T : assignee_name(T[i], M) = n})] :
             n \in {assignee_name(T[i], M) : i \in DOMAIN T} \ {""} }
    ELSE {}

(* Reports, "Timeline" *)
\* projects_df[projects_df['name'] == selected_project]['id'].iloc[0]
timeline_project_id(P, selected_project) ==
    project_ids(P)[index(project_options(P), selected_project)]

\* SELECT t.*, tm.name FROM tasks t LEFT JOIN ... WHERE t.project_id = ?
project_tasks(T, project_id) == SelectSeq(T, LAMBDA t : t.project_id = project_id)

\* (due_date - start_date).dt.days
duration(t) == to_datetime(t.due_date) - to_datetime(t.start_date)

\* The position of the last occurrence of the maximum.
idxmax_last(durs, i, best) ==
    CHOOSE k \in DOMAIN durs :
        /\ \A j \in DOMAIN durs : durs[j] <= durs[k]
        /\ \A j \in (k + 1)..Len(durs) : durs[j] < durs[k]

\* Series.idxmax(): the position of the first occurrence of the maximum.
RECURSIVE idxmax(_, _, _)
idxmax(durs, i, best) ==
    IF i > Len(durs) THEN best
    ELSE idxmax(durs, i + 1, IF durs[i] > durs[best] THEN i ELSE best)

longest_task(T, project_id) ==
    LET tasks_df == project_tasks(T, project_id)
    IN  IF tasks_df = <<>> THEN [found |-> FALSE]
        ELSE LET task_durations == [i \in DOMAIN tasks_df |-> duration(tasks_df[i])]
                 critical_task_idx == idxmax(task_durations, 1, 1)
             IN  [found |-> TRUE, task |-> tasks_df[critical_task_idx],
                  days |-> task_durations[critical_task_idx]]

\* The fraction, not multiplied by 100.
completion_fraction(tasks_df) ==
    LET completed_tasks_count == Len(SelectSeq(tasks_df, LAMBDA t : t.status = "Completed"))
        total_tasks == Len(tasks_df)
    IN  IF total_tasks > 0
        THEN RDiv(Real(completed_tasks_count), Real(total_tasks))
        ELSE Real(0)

\* (completed_tasks_count / total_tasks) * 100 if total_tasks > 0 else 0
completion_percentage(tasks_df) ==
    LET completed_tasks_count == Len(SelectSeq(tasks_df, LAMBDA t : t.status = "Completed"))
        total_tasks == Len(tasks_df)
    IN  IF total_tasks > 0
        THEN RMul(RDiv(Real(completed_tasks_count), Real(total_tasks)), Real(100))
        ELSE Real(0)

\* The guard on the percentage left out.
has_estimate_always(completion) == TRUE

\* if completion_percentage > 0:
has_estimate(completion) == RGt(completion, Real(0))

\* The prediction for a start date, an end date, now and a completion
\* percentage; a division by a zero percentage raises.
prediction(project_start, project_end, today, completion) ==
    IF has_estimate(completion)
    THEN IF completion[1] = 0 THEN [kind |-> "ZeroDivisionError"]
         ELSE LET days_passed == today - project_start
                  estimated_total_days == RDiv(Real(days_passed), RDiv(completion, Real(100)))
                  estimated_completion == RAdd(Real(project_start), estimated_total_days)
              IN  IF RGt(estimated_completion, Real(project_end))
                  THEN [kind |-> "late",
                        days |-> int(RSub(estimated_completion, Real(project_end))),
                        estimated_total_days |-> estimated_total_days,
                        estimated_completion |-> estimated_completion]
                  ELSE [kind |-> "on time",
                        estimated_total_days |-> estimated_total_days,
                        estimated_completion |-> estimated_completion]
    ELSE [kind |-> "none"]

\* The timeline tab's prediction for the project of that id.
estimate_completion(T, P, project_id, today) ==
    LET project_details == joined(P, project_id).row
        tasks_df == project_tasks(T, project_id)
    IN  IF tasks_df = <<>> THEN [kind |-> "no tasks"]
        ELSE prediction(to_datetime(project_details.start_date),
                        to_datetime(project_details.end_date),
                        today, completion_percentage(tasks_df))

\* ------------------------------------------------------------------ claims
NoCompleted(rows) == \A i \in DOMAIN rows : rows[i].status # "Completed"
Completed(rows) == Len(SelectSeq(rows, LAMBDA t : t.status = "Completed"))
TasksOf(p) == SelectSeq(tasks, LAMBDA t : t.project_id = p.id)

\* C1: submitting the form of a new project with an empty name shows the
\* validation error and inserts nothing: all three tables are as before.
C1_EmptyNameInsertsNothing ==
    [][\A f \in ProjectForms :
          (f.name = "" /\ edit_project = New /\ SaveProject(f)) =>
              /\ msg' = "Project name is required."
              /\ projects' = projects
              /\ team_members' = team_members
              /\ tasks' = tasks]_vars

C1_Witness ==
    /\ page = "Projects" /\ edit_project = New
    /\ msg = "Project name is required."
    /\ projects # <<>>

\* C2: saving the task form for an id that no row of tasks has is answered
\* with a reported error, not with an exception, and leaves tasks as it is.
C2_AbsentTaskIsReported ==
    [][\A f \in TaskForms : \A project_idx \in ProjectChoices(projects) :
          \A assigned_idx \in AssigneeChoices(team_members) :
             (/\ edit_task \notin {None, New}
              /\ edit_task \notin Ids(tasks)
              /\ SaveTask(f, project_idx, assigned_idx)) =>
                 (tasks' = tasks /\ msg' # "TypeError")]_vars

\* C3: after a new project with a non-empty name is saved, loading the row of
\* the new id gives back every submitted field, and a progress within 0..100.
C3_CreateThenGet ==
    [][\A f \in ProjectForms :
          (f.name # "" /\ edit_project = New /\ SaveProject(f)) =>
              \E id \in Ids(projects') \ Ids(projects) :
                 LET got == project_data(projects', id)
                 IN  /\ got.found
                     /\ got.row.name = f.name
                     /\ got.row.description = f.description
                     /\ fromisoformat(got.row.start_date) = f.start_date
                     /\ fromisoformat(got.row.end_date) = f.end_date
                     /\ got.row.status = f.status
                     /\ REq(got.row.progress, Real(f.progress))
                     /\ int(got.row.progress) \in 0..100]_vars

C3_Witness ==
    \E i \in DOMAIN projects :
        /\ projects[i].name = "All Projects"
        /\ projects[i].end_date = <<2024, 2, 29>>
        /\ int(projects[i].progress) = 100

\* C4: the dashboard's upcoming tasks are exactly the tasks that are not
\* Completed and are due within [now, now + 7 days].
C4_UpcomingIsTheWindow ==
    \A today \in NowDays : \A i \in DOMAIN tasks :
        LET upcoming == upcoming_tasks(tasks, projects, today)
            due == fromisoformat(tasks[i].due_date)
        IN  (\E k \in DOMAIN upcoming : upcoming[k].id = tasks[i].id)
            <=> (/\ tasks[i].status # "Completed"
                 /\ today <= due
                 /\ due <= today + WithinDays)

\* C5 as the spec states it: the estimate of a project of recorded progress
\* P > 0 (one that has tasks, so that the page shows its analysis) is the one
\* P gives, D / (P / 100) days from the start, late by the whole days past
\* the end date, whatever the statuses of its tasks.
C5_EstimateFromRecordedProgress ==
    \A i \in DOMAIN projects : \A today \in NowDays :
        LET p == projects[i]
            P == int(p.progress)
            S == fromisoformat(p.start_date)
            E == fromisoformat(p.end_date)
            D == today - S
            r == estimate_completion(tasks, projects, p.id, today)
        IN  (P > 0 /\ TasksOf(p) # <<>>) =>
               /\ r.kind \in {"late", "on time"}
               /\ REq(r.estimated_total_days, <<D * 100, P>>)
               /\ REq(r.estimated_completion, <<S * P + D * 100, P>>)
               /\ (r.kind = "late") <=> (S * P + D * 100 > E * P)
               /\ (r.kind = "late") => r.days = (S * P + D * 100 - E * P) \div P

\* C5, amended: the estimate is computed from the share of the project's
\* tasks that are Completed, c of n: when c > 0 the estimated total is
\* D * n / c days, the estimated date the start date plus that, and the
\* verdict "late" by the whole days past the end date exactly when the
\* estimated date is after it, whatever the project's recorded progress.
C5_EstimateFromTaskCompletion ==
    \A i \in DOMAIN projects : \A today \in NowDays :
        LET p == projects[i]
            n == Len(TasksOf(p))
            c == Completed(TasksOf(p))
            S == fromisoformat(p.start_date)
            E == fromisoformat(p.end_date)
            D == today - S
            r == estimate_completion(tasks, projects, p.id, today)
        IN  c > 0 =>
               /\ r.kind \in {"late", "on time"}
               /\ REq(r.estimated_total_days, <<D * n, c>>)
               /\ REq(r.estimated_completion, <<S * c + D * n, c>>)
               /\ (r.kind = "late") <=> (S * c + D * n > E * c)
               /\ (r.kind = "late") => r.days = (S * c + D * n - E * c) \div c

\* The spec's example: start 2024-01-01, end 2024-01-15, now 2024-01-11, one
\* task of two Completed: 20 days, 2024-01-21, late by 6 days.
C5_Witness ==
    \E i \in DOMAIN projects :
        LET p == projects[i]
            r == estimate_completion(tasks, projects, p.id, 11)
        IN  /\ p.start_date = <<2024, 1, 1>> /\ p.end_date = <<2024, 1, 15>>
            /\ int(p.progress) = 50
            /\ Len(TasksOf(p)) = 2 /\ Completed(TasksOf(p)) = 1
            /\ r.kind = "late" /\ r.days = 6
            /\ REq(r.estimated_total_days, Real(20))
            /\ REq(r.estimated_completion, Real(fromisoformat(<<2024, 1, 21>>)))

\* C6: the estimate never raises, for a project without tasks as for any
\* other; when no task of the project is Completed (a percentage of 0) there
\* is no estimate, and nothing is divided by that 0.
C6_EstimateNeverRaises ==
    \A i \in DOMAIN projects : \A today \in NowDays :
        LET p == projects[i]
            r == estimate_completion(tasks, projects, p.id, today)
        IN  /\ r.kind # "ZeroDivisionError"
            /\ NoCompleted(TasksOf(p)) => r.kind \in {"none", "no tasks"}

C6_Witness ==
    /\ \E i \in DOMAIN projects : TasksOf(projects[i]) = <<>>
    /\ \E i \in DOMAIN projects :
          TasksOf(projects[i]) # <<>> /\ NoCompleted(TasksOf(projects[i]))

\* C7: for every entry of the two filter selectboxes, the list holds exactly
\* the tasks that pass both filters: the tasks of the chosen project (all
\* tasks for the first entry) that have the chosen status (any status for
\* the first entry).
C7_ListIsTheFilteredTasks ==
    \A k \in DOMAIN project_filter_options(projects) :
       \A s \in DOMAIN status_filter_options :
          LET selected_project == project_filter_options(projects)[k]
              selected_status == status_filter_options[s]
              listed == list_tasks(tasks, projects, selected_project, selected_status)
          IN  \A i \in DOMAIN tasks :
                 (\E j \in DOMAIN listed : listed[j].id = tasks[i].id)
                 <=> (/\ k # 1 => \E q \in DOMAIN projects :
                                     /\ projects[q].id = tasks[i].project_id
                                     /\ projects[q].name = selected_project
                      /\ s # 1 => tasks[i].status = selected_status)

\* C8: the workload has one row per team member with at least one assigned
\* task, holding that member's number of tasks, and no other row.
C8_WorkloadIsPerMember ==
    LET assigned(m) == Cardinality({i \in DOMAIN tasks : tasks[i].assigned_to = m.id})
        busy == {j \in DOMAIN team_members : assigned(team_members[j]) > 0}
        rows == workload(tasks, team_members)
    IN  /\ \A j \in busy :
              [member |-> team_members[j].name, tasks |-> assigned(team_members[j])] \in rows
        /\ Cardinality(rows) = Cardinality(busy)
        /\ (Cardinality(busy) < Len(team_members)) => Cardinality(rows) < Len(team_members)

\* C9: the longest task of a project is one of its tasks, no task of the
\* project lasts longer, and none of the same duration is stored before it.
C9_LongestTaskIsFirstMaximum ==
    \A i \in DOMAIN projects :
        LET r == longest_task(tasks, projects[i].id)
            days(t) == fromisoformat(t.due_date) - fromisoformat(t.start_date)
        IN  IF \A k \in DOMAIN tasks : tasks[k].project_id # projects[i].id
            THEN ~r.found
            ELSE /\ r.found
                 /\ \E k \in DOMAIN tasks :
                       /\ tasks[k] = r.task
                       /\ tasks[k].project_id = projects[i].id
                       /\ r.days = days(tasks[k])
                       /\ \A j \in DOMAIN tasks :
                             tasks[j].project_id = projects[i].id =>
                                /\ days(tasks[j]) <= days(tasks[k])
                                /\ days(tasks[j]) = days(tasks[k]) => k <= j

\* Two tasks of one project tie for the longest, after a shorter one.
C9_Witness ==
    \E i, j, k \in DOMAIN tasks :
        /\ i < j /\ j < k
        /\ tasks[i].project_id = tasks[j].project_id
        /\ tasks[j].project_id = tasks[k].project_id
        /\ duration(tasks[i]) < duration(tasks[j])
        /\ duration(tasks[j]) = duration(tasks[k])
        /\ longest_task(tasks, tasks[j].project_id).task = tasks[j]

\* C10: every stored project, team member and task has a non-empty name, and
\* every stored team member a non-empty role.
C10_NamesAndRolesNonEmpty ==
    /\ \A i \in DOMAIN projects : projects[i].name # ""
    /\ \A i \in DOMAIN team_members :
          team_members[i].name # "" /\ team_members[i].role # ""
    /\ \A i \in DOMAIN tasks : tasks[i].name # ""

\* All three tables hold rows, one of them rewritten by an update, and a
\* submission without a role has just been refused.
C10_Witness ==
    /\ projects # <<>> /\ tasks # <<>> /\ Len(team_members) = 2
    /\ team_members[1].name = "Bob"
    /\ msg = "Name and role are required."

\* The three tables, before and after a step.
Tables == <<projects, team_members, tasks>>
TablesAfter == <<projects', team_members', tasks'>>

UniqueIds(tbl) == \A i, j \in DOMAIN tbl : tbl[i].id = tbl[j].id => i = j

\* C11: no two rows of a table share an id, before and after every step, and
\* a step (an update, a create, or any other) leaves every stored row at its
\* place with the id it had.
C11_IdsUniqueAndStable ==
    [][\A k \in 1..3 :
          /\ UniqueIds(Tables[k])
          /\ UniqueIds(TablesAfter[k])
          /\ \A i \in DOMAIN Tables[k] :
                /\ i \in DOMAIN TablesAfter[k]
                /\ TablesAfter[k][i].id = Tables[k][i].id]_vars

\* Two projects and two tasks; the first task was moved to the second project
\* by an update, or created after it, and the list is back on screen.
C11_Witness ==
    /\ Len(projects) = 2 /\ Len(tasks) = 2
    /\ Ids(projects) = {1, 2} /\ Ids(tasks) = {1, 2}
    /\ tasks[1].project_id = 2 /\ tasks[2].project_id = 1
    /\ tasks[1].name = "U" /\ tasks[2].name = "U"
    /\ page = "Tasks" /\ edit_task = None

ForeignKeysValid(P, M, T) ==
    \A i \in DOMAIN T :
        /\ T[i].project_id \in Ids(P)
        /\ T[i].assigned_to = NULL \/ T[i].assigned_to \in Ids(M)

\* C12: in every reachable state each task's project_id is the id of a stored
\* project and its assigned_to is NULL or the id of a stored team member; and
\* while there is no project, Save Task on the task form can only be refused:
\* no submission changes a table or ends other than with the form's error.
C12_ForeignKeysValid ==
    /\ ForeignKeysValid(projects, team_members, tasks)
    /\ (projects = <<>> /\ FormShown("Tasks", edit_task)) =>
          \A f \in TaskForms : \A assigned_idx \in AssigneeChoices(team_members) :
             /\ ENABLED SaveTask(f, 0, assigned_idx)
             /\ ~ENABLED (/\ SaveTask(f, 0, assigned_idx)
                          /\ \/ store' # store
                             \/ msg' # "You need to create a project before adding tasks.")

\* A task of the second project assigned to the team member, next to an
\* unassigned one.
C12_Witness ==
    /\ Len(projects) = 2 /\ Len(team_members) = 1
    /\ \E i \in DOMAIN tasks : tasks[i].project_id = 2 /\ tasks[i].assigned_to = 1
    /\ \E i \in DOMAIN tasks : tasks[i].assigned_to = NULL

InRange(x, lo, hi) == ~RGt(Real(lo), x) /\ ~RGt(x, Real(hi))

\* C13: in every reachable state each project's and each task's progress is
\* within [0, 100], each project's status is one of the five project statuses,
\* each task's status one of the four task statuses, and each task's priority
\* one of Low, Medium, High.
C13_ValuesWithinTheirDomains ==
    /\ \A i \in DOMAIN projects :
          /\ InRange(projects[i].progress, 0, 100)
          /\ projects[i].status \in
                {"Planning", "In Progress", "On Hold", "Completed", "Cancelled"}
    /\ \A i \in DOMAIN tasks :
          /\ InRange(tasks[i].progress, 0, 100)
          /\ tasks[i].status \in {"Not Started", "In Progress", "Blocked", "Completed"}
          /\ tasks[i].priority \in {"Low", "Medium", "High"}

\* Both ends of the range are stored: projects at 50 and at 100, a task at 0
\* next to a task at 100.
C13_Witness ==
    /\ \E i \in DOMAIN projects : REq(projects[i].progress, Real(100))
    /\ \E i \in DOMAIN projects : REq(projects[i].progress, Real(50))
    /\ \E i \in DOMAIN tasks : REq(tasks[i].progress, Real(0)) /\ tasks[i].priority = "Medium"
    /\ \E i \in DOMAIN tasks : REq(tasks[i].progress, Real(100)) /\ tasks[i].priority = "High"

\* C14: no step deletes a row: every id a table holds before a step of
\* navigation, create, update or cancel it holds after it, and no table's row
\* count goes down.
C14_NothingIsDeleted ==
    [][\A k \in 1..3 :
          /\ Ids(Tables[k]) \subseteq Ids(TablesAfter[k])
          /\ Len(TablesAfter[k]) >= Len(Tables[k])]_vars

\* The store is full, with rows in all three tables, and the team list is
\* back on screen after a form was left.
C14_Witness ==
    /\ RowCount = MaxRows
    /\ projects # <<>> /\ tasks # <<>> /\ Len(team_members) = 2
    /\ team_members[1].name = team_members[2].name
    /\ page = "Team" /\ edit_team_member = None

\* Every row of tbl but the one of that id is in after, at its place, and
\* after has no other place.
OthersUnchanged(tbl, after, id) ==
    /\ DOMAIN after = DOMAIN tbl
    /\ \A i \in DOMAIN tbl : tbl[i].id # id => after[i] = tbl[i]

NameOf(tbl, id) == tbl[CHOOSE i \in DOMAIN tbl : tbl[i].id = id].name

\* C15: a save of the edit form of a stored project, team member or task that
\* passes validation leaves the row of that id with its id and with every
\* other field equal to what was submitted (for a task's project and assignee,
\* which are submitted as names: the id of a row of that name, or NULL for
\* "Unassigned"), leaves every other row of the table and both other tables
\* as they were, and adds no row.
C15_UpdateOverwritesOneRow ==
    [][/\ \A f \in ProjectForms :
             (/\ page = "Projects" /\ edit_project \in Ids(projects)
              /\ f.name # ""
              /\ SaveProject(f)) =>
                /\ OthersUnchanged(projects, projects', edit_project)
                /\ team_members' = team_members /\ tasks' = tasks
                /\ \A i \in DOMAIN projects : projects[i].id = edit_project =>
                      /\ projects'[i].id = edit_project
                      /\ projects'[i].name = f.name
                      /\ projects'[i].description = f.description
                      /\ fromisoformat(projects'[i].start_date) = f.start_date
                      /\ fromisoformat(projects'[i].end_date) = f.end_date
                      /\ projects'[i].status = f.status
                      /\ REq(projects'[i].progress, Real(f.progress))
       /\ \A f \in MemberForms :
             (/\ page = "Team" /\ edit_team_member \in Ids(team_members)
              /\ f.name # "" /\ f.role # ""
              /\ SaveTeamMember(f)) =>
                /\ OthersUnchanged(team_members, team_members', edit_team_member)
                /\ projects' = projects /\ tasks' = tasks
                /\ \A i \in DOMAIN team_members : team_members[i].id = edit_team_member =>
                      /\ team_members'[i].id = edit_team_member
                      /\ team_members'[i].name = f.name
                      /\ team_members'[i].role = f.role
                      /\ team_members'[i].email = f.email
       /\ \A f \in TaskForms : \A project_idx \in ProjectChoices(projects) :
             \A assigned_idx \in AssigneeChoices(team_members) :
                (/\ page = "Tasks" /\ edit_task \in Ids(tasks)
                 /\ f.name # "" /\ projects # <<>>
                 /\ SaveTask(f, project_idx, assigned_idx)) =>
                   /\ OthersUnchanged(tasks, tasks', edit_task)
                   /\ projects' = projects /\ team_members' = team_members
                   /\ \A i \in DOMAIN tasks : tasks[i].id = edit_task =>
                         /\ tasks'[i].id = edit_task
                         /\ tasks'[i].name = f.name
                         /\ tasks'[i].description = f.description
                         /\ tasks'[i].status = f.status
                         /\ tasks'[i].priority = f.priority
                         /\ fromisoformat(tasks'[i].start_date) = f.start_date
                         /\ fromisoformat(tasks'[i].due_date) = f.due_date
                         /\ REq(tasks'[i].progress, Real(f.progress))
                         /\ tasks'[i].project_id \in Ids(projects)
                         /\ NameOf(projects, tasks'[i].project_id) = project_idx
                         /\ IF team_members = <<>> \/ assigned_idx = "Unassigned"
                            THEN tasks'[i].assigned_to = NULL
                            ELSE /\ tasks'[i].assigned_to \in Ids(team_members)
                                 /\ NameOf(team_members, tasks'[i].assigned_to) = assigned_idx
      ]_vars

\* Two tasks, the older one holding the later submission's description, in
\* the second project and assigned, the other task as it was created.
C15_Witness ==
    /\ Len(tasks) = 2 /\ Len(projects) = 2 /\ Len(team_members) = 1
    /\ tasks[1].name = "U" /\ tasks[1].description = "d"
    /\ tasks[1].project_id = 2 /\ tasks[1].assigned_to = 1
    /\ tasks[2].name = "T" /\ tasks[2].project_id = 1 /\ tasks[2].assigned_to = NULL
    /\ page = "Tasks" /\ edit_task = None /\ msg = ""

\* C16: in every reachable state the edit state of each page other than the
\* current one is None: edit_project off the Projects page, edit_task off
\* the Tasks page, edit_team_member off the Team page.
C16_EditStatesResetOffPage ==
    /\ page # "Projects" => edit_project = None
    /\ page # "Tasks" => edit_task = None
    /\ page # "Team" => edit_team_member = None

\* C17: saving the edit form of a stored task with the Project and Assigned To
\* selectboxes left at their pre-selected options stores the project_id and
\* the assigned_to the task had, whatever else is submitted and whatever
\* names the projects and team members have.
C17_SaveKeepsProjectAndAssignee ==
    [][\A f \in TaskForms :
          LET got == task_data(tasks, edit_task)
          IN  (/\ page = "Tasks" /\ edit_task \in Ids(tasks)
               /\ f.name # "" /\ projects # <<>>
               /\ SaveTask(f, default_project_idx(projects, got.row),
                           IF team_members = <<>> THEN 0
                           ELSE default_assigned_idx(team_members, got.row))) =>
                  \A i \in DOMAIN tasks : tasks[i].id = edit_task =>
                     /\ tasks'[i].project_id = tasks[i].project_id
                     /\ tasks'[i].assigned_to = tasks[i].assigned_to]_vars

====
